---- MODULE Spec2Model ----
(***************************************************************************)
(* Model of the `start` command of the cf CLI                              *)
(* (src/cf/requirements/usage_requirement.go, package application):       *)
(* ApplicationStart / WatchStaging run on the control task, TailStagingLogs *)
(* runs as one background goroutine, and the log repository (TailLogsFor)  *)
(* runs as a second goroutine that invokes the onConnect closure and feeds *)
(* the unbuffered channels c and e.                                        *)
(*                                                                         *)
(* Time is an integer clock `now`; one unit is one PingerThrottle.         *)
(* A panic (sync.WaitGroup counter going negative) ends the process: it is *)
(* recorded in `crashed` and no goroutine takes another step.              *)
(* The terminal UI is recorded per goroutine (`ui`, `tailUi`): the order in *)
(* which the terminal interleaves the two is not modelled.                 *)
(*                                                                         *)
(* Two further specifications stand beside Spec: CountSpec applies         *)
(* fetchInstanceCount to an instance list on its own, and ProgressSpec is  *)
(* the ProgressReader of src/cf/net/progress_reader.go with the task that  *)
(* calls Read, Seek and Close and the printProgress goroutine.             *)
(***************************************************************************)
EXTENDS Integers, Sequences, FiniteSets, TLC

\* ------------------------------------------------------------------ bounds
MaxTime == 3          \* the free-running clock stops ticking here (sleeps still advance it)
MaxMsgs == 1          \* log messages the transport delivers on c
MaxTailMsgs == 3      \* the same in TailSpec
MaxErrs == 1          \* errors the transport delivers on e
MaxConnects == 1      \* invocations of the onConnect callback by the transport
MaxInstances == 2     \* length of an instance list returned by GetInstances
MaxReasonLen == 212   \* longest staging failure reason string, in characters
MaxTotal == 2         \* largest total size given to a ProgressReader
MaxChunk == 2         \* most bytes one Read of the underlying reader returns
MaxCalls == 4         \* calls of Read, Seek and Close on a ProgressReader
MaxTicks == 2         \* ticks of printProgress's ticker

\* ------------------------------------------------------- program constants
PingerThrottle == 1       \* cmd.PingerThrottle, the unit of the clock
StartupTimeout == 2       \* cmd.StartupTimeout, in PingerThrottle units
StagingTimeouts == {0, 2} \* values of cmd.StagingTimeout (CF_STAGING_TIMEOUT may be 0)

LogMessageTypeStaging == "STG"

\* ConnectionType
NoConnection == 0
ConnectionWasEstablished == 1
ConnectionWasClosed == 2
StoppedTrying == 3

\* lengths, in characters, of the fixed text of the two staging-failure
\* templates (the text left when the {{.X}} placeholders are removed)
NoAppDetectedTemplateLen == 208
GenericTemplateLen == 34
NoAppDetectedErrorLen == 18   \* len("NoAppDetectedError")
CfNameLen == 2                \* len(cf.Name), "cf"
AppNameLen == 3               \* len(app.Name) of the application under start

\* ------------------------------------------------------------------- state
VARIABLES
  pc,                \* position of the control task (ApplicationStart/WatchStaging)
  result,            \* error returned by ApplicationStart once pc = "returned"
  appState,          \* app.State of the application handed to ApplicationStart
  StagingTimeout,    \* cmd.StagingTimeout
  now,               \* wall clock
  startCalls,        \* invocations of the start func
  ui,                \* what the control task wrote to the terminal UI, in order
  tailUi,            \* what the TailStagingLogs goroutine wrote to it, in order
  \* waitForInstancesToStage
  stagingStartTime, app, stageErr, isStaged, stageFetches, stageSleeps,
  \* waitForOneRunningInstance
  instTimerStart, count, lastFetch, instErr, instFetches, instSleeps,
  \* WatchStaging's synchronisation objects
  stopChan,          \* number of values in the buffered channel (cap 1)
  stopSends,         \* sends on stopChan
  startDone,         \* calls of loggingStartedWait.Done()
  doneDone,          \* calls of loggingDoneWait.Done()
  \* TailStagingLogs
  tailPc, connectionStatus, timerC,
  statusAccess,      \* the goroutines that have read or written connectionStatus
  \* the log repository goroutine (TailLogsFor) and the onConnect closure
  xport, onConnPc, connects, msgsSent, arrived, errsSent, cClosed, closeCalls,
  crashed,
  \* the instance list handed to fetchInstanceCount on its own
  snapshot,
  \* ProgressReader: its fields, the task calling Read/Seek/Close, the
  \* printProgress goroutine and what it has printed
  total, bytesRead, quit, callPc, printPc, prOut, prCalls, printers

ctlVars   == <<pc, result, appState, StagingTimeout, startCalls>>
stageVars == <<stagingStartTime, app, stageErr, isStaged, stageFetches, stageSleeps>>
instVars  == <<instTimerStart, count, lastFetch, instErr, instFetches, instSleeps>>
syncVars  == <<stopChan, stopSends, startDone, doneDone>>
tailVars  == <<tailPc, connectionStatus, timerC, tailUi, statusAccess>>
xportVars == <<xport, onConnPc, connects, msgsSent, arrived, errsSent, cClosed, closeCalls>>
prVars    == <<total, bytesRead, quit, callPc, printPc, prOut, prCalls, printers>>
otherVars == <<snapshot, prVars>>

startVars == <<pc, result, appState, StagingTimeout, now, startCalls, ui,
               stagingStartTime, app, stageErr, isStaged, stageFetches, stageSleeps,
               instTimerStart, count, lastFetch, instErr, instFetches, instSleeps,
               stopChan, stopSends, startDone, doneDone,
               tailPc, connectionStatus, timerC, tailUi, statusAccess,
               xport, onConnPc, connects, msgsSent, arrived, errsSent, cClosed, closeCalls,
               crashed>>

vars == <<startVars, otherVars>>

\* ------------------------------------------------------------------ values
\* an error value: the template that built it and the {{.Err}} it carries
NoReason == [text |-> "", len |-> 0]
NilErr == [kind |-> "nil", reason |-> NoReason]
MkErr(k) == [kind |-> k, reason |-> NoReason]

\* staging failure reasons: the sentinel and other strings of some lengths
NoAppDetectedError == [text |-> "NoAppDetectedError", len |-> NoAppDetectedErrorLen]
ReasonLens == {NoAppDetectedErrorLen, 191, MaxReasonLen}
FailedReasons == {NoAppDetectedError} \cup {[text |-> "other", len |-> n] : n \in ReasonLens}

\* models.Application, the fields waitForInstancesToStage reads
ZeroApp == [PackageState |-> "", StagingFailedReason |-> NoReason]
Apps == {[PackageState |-> s, StagingFailedReason |-> NoReason] : s \in {"PENDING", "STAGED"}}
        \cup {[PackageState |-> "FAILED", StagingFailedReason |-> r] : r \in FailedReasons}

\* models.InstanceFields: the state tag and the details text
InstanceStates == {"running", "starting", "flapping", "down", "crashed", "unknown"}
Instances == [State : InstanceStates, Details : {""}]
             \cup {[State |-> "starting", Details |-> "d"]}

RECURSIVE SeqsUpTo(_, _)
SeqsUpTo(S, n) == IF n = 0 THEN {<<>>}
                  ELSE LET shorter == SeqsUpTo(S, n - 1)
                       IN shorter \cup {Append(s, x) : s \in {t \in shorter : Len(t) = n - 1}, x \in S}
InstanceLists == SeqsUpTo(Instances, MaxInstances)

ZeroCount == [running |-> 0, starting |-> 0, startingDetails |-> {}, flapping |-> 0,
              down |-> 0, crashed |-> 0, total |-> 0]

\* fetchInstanceCount's loop over the instance list
RECURSIVE CountInstances(_, _)
CountInstances(instances, c) ==
  IF instances = <<>> THEN c
  ELSE LET inst == Head(instances)
           c2 == CASE inst.State = "running"  -> [c EXCEPT !.running = @ + 1]
                   [] inst.State = "starting" ->
                        [c EXCEPT !.starting = @ + 1,
                                  !.startingDetails =
                                     IF inst.Details # "" THEN @ \cup {inst.Details} ELSE @]
                   [] inst.State = "flapping" -> [c EXCEPT !.flapping = @ + 1]
                   [] inst.State = "down"     -> [c EXCEPT !.down = @ + 1]
                   [] inst.State = "crashed"  -> [c EXCEPT !.crashed = @ + 1]
                   [] OTHER -> c
       IN CountInstances(Tail(instances), c2)

\* variant: total counts only the instances with one of the five known tags
fetchInstanceCountKnownTotal(instances) ==
  LET c == CountInstances(instances, ZeroCount)
  IN [c EXCEPT !.total = c.running + c.starting + c.flapping + c.down + c.crashed]

\* fetchInstanceCount on a successful GetInstances
fetchInstanceCount(instances) ==
  CountInstances(instances, [ZeroCount EXCEPT !.total = Len(instances)])

\* terminal.CommandColor(fmt.Sprintf("%s <sub> ...", cf.Name)): length of the text
CommandLen(subLen) == CfNameLen + 1 + subLen
LogsCommandLen == CommandLen(4) + 1 + AppNameLen + 9   \* "cf logs APP --recent"

\* variant: every failure reason gets the generic tip
StagingFailedErrorGeneric(reason) == [kind |-> "GenericTip", reason |-> reason]

\* the error waitForInstancesToStage builds for PackageState == "FAILED"
StagingFailedError(reason) ==
  IF reason = NoAppDetectedError
  THEN [kind |-> "NoAppDetectedTip", reason |-> reason]
  ELSE [kind |-> "GenericTip", reason |-> reason]

\* len(err.Error()) of a staging-failure error
ErrorLen(err) ==
  IF err.kind = "NoAppDetectedTip"
  THEN err.reason.len + NoAppDetectedTemplateLen
       + CommandLen(4) + CommandLen(10) + LogsCommandLen  \* "cf push", "cf buildpacks"
  ELSE err.reason.len + GenericTemplateLen + LogsCommandLen

\* one line on the terminal UI
Out(k, t, n) == [kind |-> k, text |-> t, n |-> n]
Say(t) == Out("say", t, 0)
Warn(t) == Out("warn", t, 0)

\* sync.WaitGroup.Done() on a counter that Add(1) set to one: the second
\* Done makes the counter negative and panics
Panics(dones) == dones > 1

\* the start command before ApplicationStart, for an application state and a
\* staging deadline
StartInit(states, timeouts) ==
  /\ pc = "idle" /\ result = NilErr
  /\ appState \in states
  /\ StagingTimeout \in timeouts
  /\ now = 0 /\ startCalls = 0 /\ ui = <<>>
  /\ stagingStartTime = 0 /\ app = ZeroApp /\ stageErr = NilErr /\ isStaged = FALSE
  /\ stageFetches = 0 /\ stageSleeps = 0
  /\ instTimerStart = 0 /\ count = ZeroCount /\ lastFetch = "none" /\ instErr = NilErr
  /\ instFetches = 0 /\ instSleeps = 0
  /\ stopChan = 0 /\ stopSends = 0 /\ startDone = 0 /\ doneDone = 0
  /\ tailPc = "none" /\ connectionStatus = NoConnection /\ timerC = "unset" /\ tailUi = <<>>
  /\ statusAccess = {}
  /\ xport = "none" /\ onConnPc = "idle" /\ connects = 0 /\ msgsSent = 0 /\ errsSent = 0
  /\ arrived = <<>>
  /\ cClosed = FALSE /\ closeCalls = 0
  /\ crashed = FALSE

\* NewProgressReader and SetTotalSize: no quit channel, no goroutine
ProgressReaderInit(totals) ==
  /\ total \in totals /\ bytesRead = 0 /\ quit = "nil"
  /\ callPc = "idle" /\ printPc = "none" /\ prOut = <<>>
  /\ prCalls = 0 /\ printers = 0

Init ==
  /\ StartInit({"stopped", "started"}, StagingTimeouts)
  /\ snapshot = <<>>
  /\ ProgressReaderInit({0})

\* variant: ApplicationStart without the test of app.State
ApplicationStartNoShortCircuit ==
  /\ ~crashed /\ pc = "idle"
  /\ pc' = "WatchStaging"
  /\ UNCHANGED <<ui, result>>
  /\ UNCHANGED <<appState, StagingTimeout, now, startCalls, stageVars, instVars,
                 syncVars, tailVars, xportVars, crashed,
                 otherVars>>

\* ------------------------------------------------------------ control task
\* ApplicationStart: the already-started short circuit, else enter WatchStaging
ApplicationStart ==
  /\ ~crashed /\ pc = "idle"
  /\ IF appState = "started"
     THEN /\ ui' = Append(ui, Say("is already started"))
          /\ result' = NilErr
          /\ pc' = "returned"
     ELSE /\ pc' = "WatchStaging"
          /\ UNCHANGED <<ui, result>>
  /\ UNCHANGED <<appState, StagingTimeout, now, startCalls, stageVars, instVars,
                 syncVars, tailVars, xportVars, crashed,
                 otherVars>>

\* WatchStaging up to loggingStartedWait.Wait(): make stopChan and the two
\* wait groups, go TailStagingLogs
WatchStagingLaunch ==
  /\ ~crashed /\ pc = "WatchStaging"
  /\ stopChan' = 0 /\ startDone' = 0 /\ doneDone' = 0
  /\ tailPc' = "begin"
  /\ pc' = "loggingStartedWait"
  /\ UNCHANGED <<result, appState, StagingTimeout, now, startCalls, ui, stageVars,
                 instVars, stopSends, connectionStatus, timerC, tailUi, statusAccess,
                 xportVars, crashed, otherVars>>

\* variant: WatchStaging calls start without waiting on loggingStartedWait
LoggingStartedWaitSkipped ==
  /\ ~crashed /\ pc = "loggingStartedWait"
  /\ pc' = "start"
  /\ UNCHANGED <<result, appState, StagingTimeout, now, startCalls, ui, stageVars,
                 instVars, syncVars, tailVars, xportVars, crashed,
                 otherVars>>

\* loggingStartedWait.Wait() returns once the counter is zero
LoggingStartedWaitReleased ==
  /\ ~crashed /\ pc = "loggingStartedWait"
  /\ startDone >= 1
  /\ pc' = "start"
  /\ UNCHANGED <<result, appState, StagingTimeout, now, startCalls, ui, stageVars,
                 instVars, syncVars, tailVars, xportVars, crashed,
                 otherVars>>

\* start(app): the closure of ApplicationStart (Say, appRepo.Update); on an
\* error WatchStaging returns it at once
StartFunc ==
  /\ ~crashed /\ pc = "start"
  /\ startCalls' = startCalls + 1
  /\ ui' = Append(ui, Say("Starting app"))
  /\ \/ /\ result' = MkErr("startErr")
        /\ pc' = "returned"
        /\ UNCHANGED app
     \/ \E updatedApp \in Apps :
          /\ app' = updatedApp
          /\ pc' = "waitForInstancesToStage"
          /\ UNCHANGED result
  /\ UNCHANGED <<appState, StagingTimeout, now, stagingStartTime, stageErr, isStaged,
                 stageFetches, stageSleeps, instVars, syncVars, tailVars, xportVars,
                 crashed,
                 otherVars>>

\* time passes while a poller runs (the clock is read nowhere else)
Tick ==
  /\ ~crashed /\ now < MaxTime
  /\ pc \in {"stageLoop", "stageReturn", "instLoop"}
  /\ now' = now + 1
  /\ UNCHANGED <<ctlVars, ui, stageVars, instVars, syncVars, tailVars, xportVars, crashed,
                 otherVars>>

\* ------------------------------------------------- waitForInstancesToStage
Pending(a) == a.PackageState # "STAGED" /\ a.PackageState # "FAILED"

\* variant: the polling loop does not test the deadline
StageLoopCondNoDeadline(a, since, timeout) == Pending(a)

\* the condition of the polling loop (line 370)
StageLoopCond(a, since, timeout) == Pending(a) /\ since < timeout

\* variant: the timeout test after the loop is > instead of >=
StageOutcomeStrict(a, err, since, timeout) ==
  IF err # NilErr THEN <<FALSE, err>>
  ELSE IF a.PackageState = "FAILED"
       THEN <<FALSE, StagingFailedError(a.StagingFailedReason)>>
  ELSE IF since > timeout THEN <<FALSE, NilErr>>
  ELSE <<TRUE, NilErr>>

\* what the function returns after the loop (lines 381-415): <<staged, err>>
StageOutcome(a, err, since, timeout) ==
  IF err # NilErr THEN <<FALSE, err>>
  ELSE IF a.PackageState = "FAILED" THEN <<FALSE, StagingFailedError(a.StagingFailedReason)>>
  ELSE IF since >= timeout THEN <<FALSE, NilErr>>
  ELSE <<TRUE, NilErr>>

\* entry: stagingStartTime := time.Now(); with a zero deadline the single GetApp
StageBegin ==
  /\ ~crashed /\ pc = "waitForInstancesToStage"
  /\ stagingStartTime' = now
  /\ IF StagingTimeout = 0
     THEN /\ stageFetches' = stageFetches + 1
          /\ \/ \E fetched \in Apps : app' = fetched /\ stageErr' = NilErr
             \/ app' = ZeroApp /\ stageErr' = MkErr("apiErr")
          /\ pc' = "stageReturn"
     ELSE /\ pc' = "stageLoop"
          /\ UNCHANGED <<app, stageErr, stageFetches>>
  /\ UNCHANGED <<result, appState, StagingTimeout, now, startCalls, ui, isStaged,
                 stageSleeps, instVars, syncVars, tailVars, xportVars, crashed,
                 otherVars>>

\* one evaluation of the loop condition and, when it holds, one iteration:
\* GetApp, break on error, else time.Sleep(cmd.PingerThrottle)
StageLoop ==
  /\ ~crashed /\ pc = "stageLoop"
  /\ IF StageLoopCond(app, now - stagingStartTime, StagingTimeout)
     THEN /\ stageFetches' = stageFetches + 1
          /\ \/ /\ \E fetched \in Apps : app' = fetched
                /\ stageSleeps' = stageSleeps + 1
                /\ now' = now + PingerThrottle
                /\ UNCHANGED <<stageErr, pc>>
             \/ /\ app' = ZeroApp /\ stageErr' = MkErr("apiErr")
                /\ pc' = "stageReturn"
                /\ UNCHANGED <<stageSleeps, now>>
     ELSE /\ pc' = "stageReturn"
          /\ UNCHANGED <<app, stageErr, stageFetches, stageSleeps, now>>
  /\ UNCHANGED <<result, appState, StagingTimeout, startCalls, ui, stagingStartTime,
                 isStaged, instVars, syncVars, tailVars, xportVars, crashed,
                 otherVars>>

\* variant: stopChan has no buffer, the send needs TailStagingLogs in its select
StageReturnUnbufferedStop ==
  /\ ~crashed /\ pc = "stageReturn"
  /\ LET out == StageOutcome(app, stageErr, now - stagingStartTime, StagingTimeout)
     IN /\ isStaged' = out[1]
        /\ stageErr' = out[2]
        /\ ui' = IF stageErr = NilErr /\ app.PackageState = "FAILED"
                 THEN Append(ui, Say("")) ELSE ui
        /\ IF out[2] # NilErr
           THEN /\ result' = out[2]
                /\ pc' = "returned"
                /\ UNCHANGED <<stopChan, stopSends>>
           ELSE /\ stopChan < 1 /\ tailPc = "select"
                /\ stopChan' = stopChan + 1
                /\ stopSends' = stopSends + 1
                /\ pc' = "loggingDoneWait"
                /\ UNCHANGED result
  /\ UNCHANGED <<appState, StagingTimeout, now, startCalls, stagingStartTime, app,
                 stageFetches, stageSleeps, instVars, startDone, doneDone, tailVars,
                 xportVars, crashed,
                 otherVars>>

\* the code after the loop, and WatchStaging's use of the result: return the
\* error, else stopChan <- true
StageReturn ==
  /\ ~crashed /\ pc = "stageReturn"
  /\ LET out == StageOutcome(app, stageErr, now - stagingStartTime, StagingTimeout)
     IN /\ isStaged' = out[1]
        /\ stageErr' = out[2]
        /\ ui' = IF stageErr = NilErr /\ app.PackageState = "FAILED"
                 THEN Append(ui, Say("")) ELSE ui
        /\ IF out[2] # NilErr
           THEN /\ result' = out[2]
                /\ pc' = "returned"
                /\ UNCHANGED <<stopChan, stopSends>>
           ELSE /\ stopChan < 1
                /\ stopChan' = stopChan + 1
                /\ stopSends' = stopSends + 1
                /\ pc' = "loggingDoneWait"
                /\ UNCHANGED result
  /\ UNCHANGED <<appState, StagingTimeout, now, startCalls, stagingStartTime, app,
                 stageFetches, stageSleeps, instVars, startDone, doneDone, tailVars,
                 xportVars, crashed,
                 otherVars>>

\* variant: WatchStaging does not wait for the tailer's done signal
LoggingDoneWaitSkipped ==
  /\ ~crashed /\ pc = "loggingDoneWait"
  /\ ui' = Append(ui, Say(""))
  /\ IF ~isStaged
     THEN result' = MkErr("failed to stage within") /\ pc' = "returned"
     ELSE pc' = "waitForOneRunningInstance" /\ UNCHANGED result
  /\ UNCHANGED <<appState, StagingTimeout, now, startCalls, stageVars, instVars,
                 syncVars, tailVars, xportVars, crashed,
                 otherVars>>

\* loggingDoneWait.Wait() returns; Say(""); the staging-timeout error
LoggingDoneWaitReleased ==
  /\ ~crashed /\ pc = "loggingDoneWait"
  /\ doneDone >= 1
  /\ ui' = Append(ui, Say(""))
  /\ IF ~isStaged
     THEN result' = MkErr("failed to stage within") /\ pc' = "returned"
     ELSE pc' = "waitForOneRunningInstance" /\ UNCHANGED result
  /\ UNCHANGED <<appState, StagingTimeout, now, startCalls, stageVars, instVars,
                 syncVars, tailVars, xportVars, crashed,
                 otherVars>>

\* variant: only flapping instances fail the start
InstanceVerdictFlappingOnly(c) ==
  IF c.running > 0 THEN "running"
  ELSE IF c.flapping > 0 THEN "failed"
  ELSE "retry"

\* variant: the flapping/crashed test comes before the running test
InstanceVerdictFailedFirst(c) ==
  IF c.flapping > 0 \/ c.crashed > 0 THEN "failed"
  ELSE IF c.running > 0 THEN "running"
  ELSE "retry"

\* ----------------------------------------------- waitForOneRunningInstance
\* what one successfully fetched snapshot decides (lines 443-454)
InstanceVerdict(c) ==
  IF c.running > 0 THEN "running"
  ELSE IF c.flapping > 0 \/ c.crashed > 0 THEN "failed"
  ELSE "retry"

\* the counts of a snapshot that lines 443-448 read
Tested(c) ==
  [ZeroCount EXCEPT !.running = c.running, !.flapping = c.flapping, !.crashed = c.crashed]

\* variant: the startup timer is started again by the next step of the loop
InstBeginRearmed ==
  /\ ~crashed /\ pc \in {"waitForOneRunningInstance", "instLoop"}
  /\ pc = "instLoop" => instTimerStart < now
  /\ instTimerStart' = now
  /\ pc' = "instLoop"
  /\ UNCHANGED <<result, appState, StagingTimeout, now, startCalls, ui, stageVars,
                 count, lastFetch, instErr, instFetches, instSleeps, syncVars, tailVars,
                 xportVars, crashed,
                 otherVars>>

\* timer := time.NewTimer(cmd.StartupTimeout)
InstBegin ==
  /\ ~crashed /\ pc = "waitForOneRunningInstance"
  /\ instTimerStart' = now
  /\ pc' = "instLoop"
  /\ UNCHANGED <<result, appState, StagingTimeout, now, startCalls, ui, stageVars,
                 count, lastFetch, instErr, instFetches, instSleeps, syncVars, tailVars,
                 xportVars, crashed,
                 otherVars>>

\* select case <-timer.C: the timeout error
InstTimeout ==
  /\ ~crashed /\ pc = "instLoop"
  /\ now - instTimerStart >= StartupTimeout
  /\ instErr' = MkErr("Start app timeout")
  /\ pc' = "instReturn"
  /\ UNCHANGED <<result, appState, StagingTimeout, now, startCalls, ui, stageVars,
                 instTimerStart, count, lastFetch, instFetches, instSleeps, syncVars,
                 tailVars, xportVars, crashed,
                 otherVars>>

\* variant: a failed GetInstances ends the poller with the error
InstFetchFailedFatal ==
  /\ ~crashed /\ pc = "instLoop"
  /\ now - instTimerStart < StartupTimeout
  /\ instFetches' = instFetches + 1
  /\ lastFetch' = "err"
  /\ count' = ZeroCount
  /\ instErr' = MkErr("Could not fetch instance count")
  /\ pc' = "instReturn"
  /\ UNCHANGED <<result, appState, StagingTimeout, now, startCalls, ui, stageVars,
                 instTimerStart, instSleeps, syncVars, tailVars, xportVars, crashed,
                 otherVars>>

\* select default, GetInstances fails: Warn, Sleep, continue
InstFetchFailed ==
  /\ ~crashed /\ pc = "instLoop"
  /\ now - instTimerStart < StartupTimeout
  /\ instFetches' = instFetches + 1
  /\ lastFetch' = "err"
  /\ count' = ZeroCount
  /\ ui' = Append(ui, Warn("Could not fetch instance count"))
  /\ instSleeps' = instSleeps + 1
  /\ now' = now + PingerThrottle
  /\ UNCHANGED <<ctlVars, stageVars, instTimerStart, instErr, syncVars, tailVars,
                 xportVars, crashed,
                 otherVars>>

\* select default, GetInstances succeeds: Say(instancesDetails), then return
\* nil, return the "Start unsuccessful" error, or Sleep; count is a variable
\* of one iteration: past the Sleep only the counts the poller tested are kept
InstFetchOk ==
  /\ ~crashed /\ pc = "instLoop"
  /\ now - instTimerStart < StartupTimeout
  /\ \E instances \in InstanceLists :
       LET c == fetchInstanceCount(instances)
           v == InstanceVerdict(c)
       IN /\ instFetches' = instFetches + 1
          /\ lastFetch' = "ok"
          /\ ui' = Append(ui, Out("say", "instancesDetails", c.running))
          /\ CASE v = "running" ->
                    /\ count' = c
                    /\ instErr' = NilErr /\ pc' = "instReturn"
                    /\ UNCHANGED <<instSleeps, now>>
               [] v = "failed" ->
                    /\ count' = c
                    /\ instErr' = MkErr("Start unsuccessful") /\ pc' = "instReturn"
                    /\ UNCHANGED <<instSleeps, now>>
               [] OTHER ->
                    /\ count' = Tested(c)
                    /\ instSleeps' = instSleeps + 1
                    /\ now' = now + PingerThrottle
                    /\ UNCHANGED <<instErr, pc>>
  /\ UNCHANGED <<result, appState, StagingTimeout, startCalls, stageVars,
                 instTimerStart, syncVars, tailVars, xportVars, crashed,
                 otherVars>>

\* WatchStaging after waitForOneRunningInstance: return its error, else
\* "App started", GetApp, the start command line, ShowApp
WatchStagingReport ==
  /\ ~crashed /\ pc = "instReturn"
  /\ pc' = "returned"
  /\ IF instErr # NilErr
     THEN result' = instErr /\ UNCHANGED ui
     ELSE \/ /\ result' = MkErr("apiErr")
             /\ ui' = ui \o <<Say("App started"), Say(""), Say("OK")>>
          \/ /\ result' \in {NilErr, MkErr("showAppErr")}
             /\ ui' = ui \o <<Say("App started"), Say(""), Say("OK"),
                              Say("was started using this command")>>
  /\ UNCHANGED <<appState, StagingTimeout, now, startCalls, stageVars, instVars,
                 syncVars, tailVars, xportVars, crashed,
                 otherVars>>

\* --------------------------------------------------------- TailStagingLogs
\* variant: TailStagingLogs returns without the deferred doneWait.Done()
TailReturnNoDone ==
  /\ tailPc' = "exited"
  /\ doneDone' = doneDone

\* return from TailStagingLogs: the deferred doneWait.Done()
TailReturn ==
  /\ tailPc' = "exited"
  /\ doneDone' = doneDone + 1

\* up to the for loop: status NoConnection, the connection timer, the
\* channels c and e, go cmd.logRepo.TailLogsFor
TailBegin ==
  /\ ~crashed /\ tailPc = "begin"
  /\ connectionStatus' = NoConnection
  /\ timerC' = "armed"
  /\ xport' = "running"
  /\ tailPc' = "select"
  /\ statusAccess' = statusAccess \cup {"TailStagingLogs"}
  /\ UNCHANGED <<ctlVars, now, ui, stageVars, instVars, syncVars, tailUi,
                 onConnPc, connects, msgsSent, arrived, errsSent, cClosed, closeCalls, crashed,
                 otherVars>>

\* the runtime fires the timer of cmd.LogServerConnectionTimeout (of no effect
\* once TailStagingLogs, the only reader of timer.C, has returned)
ConnectionTimerFires ==
  /\ ~crashed /\ timerC = "armed" /\ tailPc # "exited"
  /\ timerC' = "ready"
  /\ UNCHANGED <<ctlVars, now, ui, stageVars, instVars, syncVars, tailPc,
                 connectionStatus, tailUi, statusAccess, xportVars, crashed,
                 otherVars>>

\* case <-timer.C: the read of connectionStatus
TailTimer ==
  /\ ~crashed /\ tailPc = "select" /\ timerC = "ready"
  /\ timerC' = "drained"
  /\ tailPc' = IF connectionStatus = NoConnection THEN "timerGiveUp" ELSE "select"
  /\ statusAccess' = statusAccess \cup {"TailStagingLogs"}
  /\ UNCHANGED <<ctlVars, now, ui, stageVars, instVars, syncVars, connectionStatus,
                 tailUi, xportVars, crashed,
                 otherVars>>

\* case <-timer.C, status was NoConnection: StoppedTrying, Warn,
\* startWait.Done(), return
TailTimerGiveUp ==
  /\ ~crashed /\ tailPc = "timerGiveUp"
  /\ connectionStatus' = StoppedTrying
  /\ tailUi' = Append(tailUi, Warn("timeout connecting to log server"))
  /\ startDone' = startDone + 1
  /\ crashed' = Panics(startDone + 1)
  /\ TailReturn
  /\ statusAccess' = statusAccess \cup {"TailStagingLogs"}
  /\ UNCHANGED <<ctlVars, now, ui, stageVars, instVars, stopChan, stopSends, timerC,
                 xportVars,
                 otherVars>>

\* variant: every message is said, whatever its source is
TailMessageUpToAnySource(max) ==
  /\ ~crashed /\ tailPc = "select"
  /\ xport = "running" /\ connects > 0 /\ ~cClosed /\ msgsSent < max
  /\ msgsSent' = msgsSent + 1
  /\ \E source \in {LogMessageTypeStaging, "APP"} :
       /\ arrived' = Append(arrived, source)
       /\ tailUi' = Append(tailUi, Out("say", "log", msgsSent + 1))
  /\ UNCHANGED <<ctlVars, now, ui, stageVars, instVars, syncVars, tailPc,
                 connectionStatus, timerC, statusAccess,
                 xport, onConnPc, connects, errsSent, cClosed, closeCalls, crashed,
                 otherVars>>

\* case msg, ok := <-c with ok: the transport's send on c meets the select
\* (the transport has messages only once it has connected, and at most max
\* of them); only a message whose source is LogMessageTypeStaging is said
TailMessageUpTo(max) ==
  /\ ~crashed /\ tailPc = "select"
  /\ xport = "running" /\ connects > 0 /\ ~cClosed /\ msgsSent < max
  /\ msgsSent' = msgsSent + 1
  /\ \E source \in {LogMessageTypeStaging, "APP"} :
       /\ arrived' = Append(arrived, source)
       /\ tailUi' = IF source = LogMessageTypeStaging
                    THEN Append(tailUi, Out("say", "log", msgsSent + 1)) ELSE tailUi
  /\ UNCHANGED <<ctlVars, now, ui, stageVars, instVars, syncVars, tailPc,
                 connectionStatus, timerC, statusAccess,
                 xport, onConnPc, connects, errsSent, cClosed, closeCalls, crashed,
                 otherVars>>

TailMessage == TailMessageUpTo(MaxMsgs)

\* case msg, ok := <-c with !ok: the channel was closed, return
TailStreamClosed ==
  /\ ~crashed /\ tailPc = "select"
  /\ cClosed
  /\ TailReturn
  /\ UNCHANGED <<ctlVars, now, ui, stageVars, instVars, stopChan, stopSends, startDone,
                 connectionStatus, timerC, tailUi, statusAccess, xportVars, crashed,
                 otherVars>>

\* variant: an error on e ends the loop whatever the status is
TailErrorAlwaysReturns ==
  /\ ~crashed /\ tailPc = "select"
  /\ xport = "running" /\ errsSent < MaxErrs
  /\ errsSent' = errsSent + 1
  /\ tailUi' = tailUi \o <<Warn("Warning: error tailing logs"), Say("err")>>
  /\ tailPc' = "errorReturn"
  /\ statusAccess' = statusAccess \cup {"TailStagingLogs"}
  /\ UNCHANGED <<ctlVars, now, ui, stageVars, instVars, syncVars, connectionStatus,
                 timerC, xport, onConnPc, connects, msgsSent, arrived, cClosed, closeCalls, crashed,
                 otherVars>>

\* case err, ok := <-e with ok: the first read of connectionStatus; with
\* ConnectionWasClosed the loop continues
TailError ==
  /\ ~crashed /\ tailPc = "select"
  /\ xport = "running" /\ errsSent < MaxErrs
  /\ errsSent' = errsSent + 1
  /\ IF connectionStatus # ConnectionWasClosed
     THEN /\ tailUi' = tailUi \o <<Warn("Warning: error tailing logs"), Say("err")>>
          /\ tailPc' = "errorReturn"
     ELSE UNCHANGED <<tailUi, tailPc>>
  /\ statusAccess' = statusAccess \cup {"TailStagingLogs"}
  /\ UNCHANGED <<ctlVars, now, ui, stageVars, instVars, syncVars, connectionStatus,
                 timerC, xport, onConnPc, connects, msgsSent, arrived, cClosed, closeCalls, crashed,
                 otherVars>>

\* the second read: startWait.Done() if the status is NoConnection; return
TailErrorReturn ==
  /\ ~crashed /\ tailPc = "errorReturn"
  /\ IF connectionStatus = NoConnection
     THEN /\ startDone' = startDone + 1
          /\ crashed' = Panics(startDone + 1)
     ELSE UNCHANGED <<startDone, crashed>>
  /\ TailReturn
  /\ statusAccess' = statusAccess \cup {"TailStagingLogs"}
  /\ UNCHANGED <<ctlVars, now, ui, stageVars, instVars, stopChan, stopSends,
                 connectionStatus, timerC, tailUi, xportVars,
                 otherVars>>

\* case <-stopChan: the read of connectionStatus; return unless established
TailStop ==
  /\ ~crashed /\ tailPc = "select"
  /\ stopChan > 0
  /\ stopChan' = stopChan - 1
  /\ IF connectionStatus = ConnectionWasEstablished
     THEN tailPc' = "stopClose" /\ UNCHANGED doneDone
     ELSE TailReturn
  /\ statusAccess' = statusAccess \cup {"TailStagingLogs"}
  /\ UNCHANGED <<ctlVars, now, ui, stageVars, instVars, stopSends, startDone,
                 connectionStatus, timerC, tailUi, xportVars, crashed,
                 otherVars>>

\* case <-stopChan, status was established: ConnectionWasClosed, logRepo.Close()
TailStopClose ==
  /\ ~crashed /\ tailPc = "stopClose"
  /\ connectionStatus' = ConnectionWasClosed
  /\ closeCalls' = closeCalls + 1
  /\ tailPc' = "select"
  /\ statusAccess' = statusAccess \cup {"TailStagingLogs"}
  /\ UNCHANGED <<ctlVars, now, ui, stageVars, instVars, syncVars, timerC, tailUi,
                 xport, onConnPc, connects, msgsSent, arrived, errsSent, cClosed, crashed,
                 otherVars>>

\* ------------------------------------------- onConnect and the log transport
\* the transport calls onConnect: the read of connectionStatus
OnConnect ==
  /\ ~crashed /\ xport = "running"
  /\ onConnPc = "idle" /\ connects < MaxConnects
  /\ connects' = connects + 1
  /\ onConnPc' = IF connectionStatus # StoppedTrying THEN "established" ELSE "idle"
  /\ statusAccess' = statusAccess \cup {"TailLogsFor"}
  /\ UNCHANGED <<ctlVars, now, ui, stageVars, instVars, syncVars, tailPc,
                 connectionStatus, timerC, tailUi, xport, msgsSent, arrived, errsSent, cClosed, closeCalls, crashed,
                 otherVars>>

\* onConnect, status was not StoppedTrying: ConnectionWasEstablished,
\* startWait.Done()
OnConnectEstablished ==
  /\ ~crashed /\ onConnPc = "established"
  /\ connectionStatus' = ConnectionWasEstablished
  /\ startDone' = startDone + 1
  /\ crashed' = Panics(startDone + 1)
  /\ onConnPc' = "idle"
  /\ statusAccess' = statusAccess \cup {"TailLogsFor"}
  /\ UNCHANGED <<ctlVars, now, ui, stageVars, instVars, stopChan, stopSends, doneDone,
                 tailPc, timerC, tailUi, xport, connects, msgsSent, arrived, errsSent, cClosed,
                 closeCalls,
                 otherVars>>

\* the transport closes the message channel c (of no effect once
\* TailStagingLogs, the only reader of c, has returned)
TransportClosesStream ==
  /\ ~crashed /\ xport = "running" /\ ~cClosed /\ tailPc # "exited"
  /\ cClosed' = TRUE
  /\ UNCHANGED <<ctlVars, now, ui, stageVars, instVars, syncVars, tailVars,
                 xport, onConnPc, connects, msgsSent, arrived, errsSent, closeCalls, crashed,
                 otherVars>>

\* ------------------------------------------------ fetchInstanceCount alone
\* GetInstances has returned a list of instances
CountInit ==
  /\ StartInit({"stopped"}, {0})
  /\ snapshot \in InstanceLists
  /\ ProgressReaderInit({0})

\* fetchInstanceCount counts the list and returns
FetchInstanceCountReturn ==
  /\ lastFetch = "none"
  /\ count' = fetchInstanceCount(snapshot)
  /\ lastFetch' = "ok"
  /\ UNCHANGED <<ctlVars, now, ui, stageVars, instTimerStart, instErr, instFetches,
                 instSleeps, syncVars, tailVars, xportVars, crashed, otherVars>>

CountNext == FetchInstanceCountReturn

CountSpec == CountInit /\ [][CountNext]_vars

\* ---------------------------------------------------------- ProgressReader
\* what printProgress prints
Uploaded == Out("print", "uploaded...", 0)
BlankLine == Out("print", "", 0)
DoneUploading == Say("Done uploading")

\* NewProgressReader with a reader, then SetTotalSize
ProgressInit ==
  /\ StartInit({"stopped"}, {0})
  /\ snapshot = <<>>
  /\ ProgressReaderInit(0..MaxTotal)

\* variant: Read starts printProgress whenever it has read bytes
ReadSpawnsEachTime ==
  /\ callPc = "idle" /\ prCalls < MaxCalls
  /\ prCalls' = prCalls + 1
  /\ \E n \in 0..MaxChunk :
       IF total > 0 /\ n > 0
       THEN /\ quit' = "made" /\ printPc' = "select" /\ printers' = printers + 1
            /\ bytesRead' = bytesRead + n
            /\ callPc' = IF total <= bytesRead + n THEN "readSend" ELSE "idle"
       ELSE UNCHANGED <<bytesRead, quit, printPc, printers, callPc>>
  /\ UNCHANGED <<total, prOut, startVars, snapshot>>

\* Read: the underlying reader returns n bytes; with a positive total the
\* first bytes make quit and start printProgress, bytesRead grows by n, and
\* with total <= bytesRead Read goes on to send on quit
Read ==
  /\ callPc = "idle" /\ prCalls < MaxCalls
  /\ prCalls' = prCalls + 1
  /\ \E n \in 0..MaxChunk :
       IF total > 0 /\ n > 0
       THEN /\ IF quit = "nil"
               THEN quit' = "made" /\ printPc' = "select" /\ printers' = printers + 1
               ELSE UNCHANGED <<quit, printPc, printers>>
            /\ bytesRead' = bytesRead + n
            /\ callPc' = IF total <= bytesRead + n THEN "readSend" ELSE "idle"
       ELSE UNCHANGED <<bytesRead, quit, printPc, printers, callPc>>
  /\ UNCHANGED <<total, prOut, startVars, snapshot>>

\* Seek: bytesRead becomes the position the underlying reader returns
Seek ==
  /\ callPc = "idle" /\ prCalls < MaxCalls
  /\ prCalls' = prCalls + 1
  /\ \E n \in 0..MaxTotal : bytesRead' = n
  /\ UNCHANGED <<total, quit, callPc, printPc, prOut, printers, startVars, snapshot>>

\* Close: with a quit channel go on to send on it, else close the reader
Close ==
  /\ callPc = "idle" /\ prCalls < MaxCalls
  /\ prCalls' = prCalls + 1
  /\ callPc' = IF quit # "nil" THEN "closeSend" ELSE "idle"
  /\ UNCHANGED <<total, bytesRead, quit, printPc, prOut, printers, startVars, snapshot>>

\* printProgress, case <-quit, meeting the send of Read or Close on the
\* unbuffered channel: the blank line, "Done uploading", return; the sender
\* goes on (Read returns, Close closes the reader and returns)
PrintProgressQuit ==
  /\ printPc = "select" /\ callPc \in {"readSend", "closeSend"}
  /\ prOut' = prOut \o <<BlankLine, DoneUploading>>
  /\ printPc' = "exited"
  /\ callPc' = "idle"
  /\ UNCHANGED <<total, bytesRead, quit, prCalls, printers, startVars, snapshot>>

\* printProgress, case <-timer.C: the "uploaded..." line
PrintProgressTick ==
  /\ printPc = "select" /\ Len(prOut) < MaxTicks
  /\ prOut' = Append(prOut, Uploaded)
  /\ UNCHANGED <<total, bytesRead, quit, callPc, printPc, prCalls, printers,
                 startVars, snapshot>>

ProgressNext == Read \/ Seek \/ Close \/ PrintProgressQuit \/ PrintProgressTick

ProgressSpec == ProgressInit /\ [][ProgressNext]_vars

Next ==
  \/ ApplicationStart \/ WatchStagingLaunch \/ LoggingStartedWaitReleased \/ StartFunc
  \/ Tick
  \/ StageBegin \/ StageLoop \/ StageReturn \/ LoggingDoneWaitReleased
  \/ InstBegin \/ InstTimeout \/ InstFetchFailed \/ InstFetchOk \/ WatchStagingReport
  \/ TailBegin \/ ConnectionTimerFires \/ TailTimer \/ TailTimerGiveUp
  \/ TailMessage \/ TailStreamClosed \/ TailError \/ TailErrorReturn
  \/ TailStop \/ TailStopClose
  \/ OnConnect \/ OnConnectEstablished \/ TransportClosesStream

Spec == Init /\ [][Next]_vars


\* DrainNext with a transport that delivers up to MaxTailMsgs messages
TailNext ==
  \/ ApplicationStart \/ WatchStagingLaunch \/ LoggingStartedWaitReleased \/ StartFunc
  \/ Tick
  \/ StageBegin \/ StageLoop \/ StageReturn \/ LoggingDoneWaitReleased
  \/ TailBegin \/ ConnectionTimerFires \/ TailTimer \/ TailTimerGiveUp
  \/ TailMessageUpTo(MaxTailMsgs) \/ TailStreamClosed \/ TailError \/ TailErrorReturn
  \/ TailStop \/ TailStopClose
  \/ OnConnect \/ OnConnectEstablished \/ TransportClosesStream

TailSpec == Init /\ [][TailNext]_vars

\* the steps of the control task up to the drain, and of TailStagingLogs on
\* its own
ControlTask ==
  \/ ApplicationStart \/ WatchStagingLaunch \/ LoggingStartedWaitReleased \/ StartFunc
  \/ StageBegin \/ StageLoop \/ StageReturn \/ LoggingDoneWaitReleased
TailTask ==
  \/ TailBegin \/ TailTimer \/ TailTimerGiveUp \/ TailStreamClosed \/ TailErrorReturn
  \/ TailStop \/ TailStopClose

\* WatchStaging up to the call of waitForOneRunningInstance, which comes
\* after the tailer was stopped and has exited
DrainNext ==
  \/ ApplicationStart \/ WatchStagingLaunch \/ LoggingStartedWaitReleased \/ StartFunc
  \/ Tick
  \/ StageBegin \/ StageLoop \/ StageReturn \/ LoggingDoneWaitReleased
  \/ TailBegin \/ ConnectionTimerFires \/ TailTimer \/ TailTimerGiveUp
  \/ TailMessage \/ TailStreamClosed \/ TailError \/ TailErrorReturn
  \/ TailStop \/ TailStopClose
  \/ OnConnect \/ OnConnectEstablished \/ TransportClosesStream

\* that part of Spec with the scheduling of the Go runtime: a goroutine that
\* can take a step takes one, and a started timer fires; nothing is assumed
\* of the transport
FairSpec ==
  /\ Init /\ [][DrainNext]_vars
  /\ WF_vars(ControlTask)
  /\ WF_vars(TailTask)
  /\ WF_vars(OnConnectEstablished)
  /\ WF_vars(ConnectionTimerFires)

\* ================================================================== claims
\* WatchStaging has launched the log tailer
TailerLaunched == tailPc # "none"

\* waitForInstancesToStage has returned to WatchStaging
StageReturned ==
  \/ pc \in {"loggingDoneWait", "waitForOneRunningInstance", "instLoop", "instReturn"}
  \/ pc = "returned" /\ appState = "stopped" /\ result.kind # "startErr"

\* waitForOneRunningInstance has returned to WatchStaging
InstReturned ==
  \/ pc = "instReturn"
  \/ pc = "returned" /\ isStaged /\ result.kind \notin {"startErr", "failed to stage within"}

\* C1: whenever WatchStaging has returned after launching the log tailer,
\* TailStagingLogs has exited and has signalled done (stated as claimed; the
\* error returns of lines 212 and 218 violate it)
C1_ReturnOnlyAfterTailerDone ==
  (pc = "returned" /\ TailerLaunched) => (tailPc = "exited" /\ doneDone = 1)

\* C2: the start func is invoked only after the log tailer signalled ready,
\* that is after the status left NoConnection or the tailer gave up and exited
C2_StartOnlyAfterReady ==
  startCalls > 0 =>
    /\ startDone >= 1
    /\ \/ connectionStatus \in {ConnectionWasEstablished, ConnectionWasClosed, StoppedTrying}
       \/ tailPc = "exited"

\* C2 witness: start was invoked in a run whose tailer connected
C2_Witness == startCalls = 1 /\ connectionStatus = ConnectionWasEstablished /\ startDone = 1

\* C3: startWait.Done() is called at most once, and exactly once by the time
\* TailStagingLogs has exited (stated as claimed; a stream closed before the
\* connection, and the race of onConnect with the timeout, violate it)
C3_ReadyExactlyOnce ==
  /\ startDone <= 1
  /\ tailPc = "exited" => startDone = 1

\* C4: doneWait.Done() is called at most once, never before TailStagingLogs
\* exits, and on every exit of TailStagingLogs
C4_DoneExactlyOnce ==
  /\ doneDone <= 1
  /\ tailPc = "exited" <=> doneDone = 1

\* C4 witness: the tailer exited and signalled done though the stream never connected
C4_Witness == tailPc = "exited" /\ doneDone = 1 /\ connects = 0

\* C5: for an application already started, ApplicationStart only says the
\* warning and returns nil: no tailer, no subscription, no start, no fetch
C5_AlreadyStartedShortCircuit ==
  appState = "started" =>
    /\ pc \in {"idle", "returned"}
    /\ tailPc = "none" /\ xport = "none" /\ startCalls = 0
    /\ stageFetches = 0 /\ instFetches = 0
    /\ pc = "returned" => (result = NilErr /\ ui = <<Say("is already started")>>)

\* C5 witness: ApplicationStart has returned for an already started application
C5_Witness == appState = "started" /\ pc = "returned" /\ Len(ui) = 1

\* C6 as claimed: a fetched snapshot with flapping > 0 or crashed > 0 ends the
\* poller with the fatal error whatever its other counts are
C6_FatalWhateverOtherCounts ==
  (lastFetch = "ok" /\ (count.flapping > 0 \/ count.crashed > 0)) =>
     (InstReturned /\ instErr = MkErr("Start unsuccessful"))

\* C6 amended: a fetched snapshot with no running instance and flapping > 0
\* or crashed > 0 ends the poller with the fatal error, which WatchStaging
\* returns, and no fetch follows it
C6_FatalWhenNoneRunning ==
  /\ [](/\ (lastFetch = "ok" /\ count.running = 0
              /\ (count.flapping > 0 \/ count.crashed > 0)) =>
                 (InstReturned /\ instErr = MkErr("Start unsuccessful"))
        /\ (instErr = MkErr("Start unsuccessful") /\ pc = "returned") => result = instErr)
  /\ [][instErr = MkErr("Start unsuccessful") => instFetches' = instFetches]_vars

\* C6 witness: the fatal error for a snapshot with a crashed and a starting instance
C6_Witness ==
  /\ pc = "returned" /\ result = MkErr("Start unsuccessful")
  /\ count.crashed = 1 /\ count.starting = 1

\* C7: a fetched snapshot with running >= 1 ends the poller with a nil error,
\* and once the poller has returned there is no further fetch and no sleep
C7_SuccessAtFirstRunning ==
  /\ []((lastFetch = "ok" /\ count.running >= 1) => (InstReturned /\ instErr = NilErr))
  /\ [][InstReturned => (instFetches' = instFetches /\ instSleeps' = instSleeps)]_vars

\* C7 witness: success at the third fetch, after a failed fetch and a snapshot
\* without running instances
C7_Witness ==
  /\ pc = "instReturn" /\ instErr = NilErr /\ count.running >= 1
  /\ instFetches >= 2 /\ instSleeps = instFetches - 1

\* C8 as claimed: with a zero deadline there is one fetch and no sleep, and
\* after a successful fetch staged is true exactly if the state is STAGED
\* (the test of line 409 makes staged false for STAGED too)
C8_ZeroDeadlineOneFetch ==
  (StagingTimeout = 0 /\ StageReturned) =>
     /\ stageFetches = 1 /\ stageSleeps = 0
     /\ app # ZeroApp => (isStaged <=> app.PackageState = "STAGED")

\* C9: with a nonzero deadline, when no fetch failed and the state is still
\* pending at the return, the loop ended on the deadline and the result is
\* (false, nil)
C9_PendingAtDeadline ==
  (StagingTimeout > 0 /\ StageReturned /\ app # ZeroApp /\ Pending(app)) =>
     /\ isStaged = FALSE /\ stageErr = NilErr
     /\ now - stagingStartTime >= StagingTimeout

\* C9 witness: the poller returned (false, nil) after two fetches of a pending state
C9_Witness ==
  /\ StagingTimeout > 0 /\ pc = "loggingDoneWait" /\ Pending(app) /\ app # ZeroApp
  /\ stageFetches = 2 /\ isStaged = FALSE /\ stageErr = NilErr

\* the error for the sentinel reason
NoAppDetectedTipError == StagingFailedError(NoAppDetectedError)

\* C10 as claimed: a final state FAILED gives a non-nil error, and the error
\* for NoAppDetectedError is different from and longer than the error for
\* any other reason
C10_FailedErrorLongerForSentinel ==
  (StageReturned /\ app.PackageState = "FAILED") =>
     /\ stageErr # NilErr /\ ~isStaged
     /\ app.StagingFailedReason # NoAppDetectedError =>
          /\ stageErr # NoAppDetectedTipError
          /\ ErrorLen(stageErr) < ErrorLen(NoAppDetectedTipError)

\* C10 amended: a final state FAILED gives a non-nil error, which WatchStaging
\* returns; the error for NoAppDetectedError uses the extended tip, and it is
\* different from and longer than the error for any other reason of fewer
\* than 192 characters
C10_FailedErrorLongerForShortReasons ==
  (StageReturned /\ app.PackageState = "FAILED") =>
     /\ stageErr # NilErr /\ ~isStaged
     /\ pc = "returned" /\ result = stageErr
     /\ stageErr.reason = app.StagingFailedReason
     /\ app.StagingFailedReason = NoAppDetectedError => stageErr.kind = "NoAppDetectedTip"
     /\ (app.StagingFailedReason # NoAppDetectedError
           /\ app.StagingFailedReason.len
                < NoAppDetectedErrorLen + NoAppDetectedTemplateLen - GenericTemplateLen) =>
          /\ stageErr # NoAppDetectedTipError
          /\ ErrorLen(stageErr) < ErrorLen(NoAppDetectedTipError)

\* C10 witness: staging failed with another reason as long as the sentinel
C10_Witness ==
  /\ StageReturned /\ app.PackageState = "FAILED" /\ stageFetches >= 1
  /\ app.StagingFailedReason = [text |-> "other", len |-> NoAppDetectedErrorLen]
  /\ stageErr.kind = "GenericTip"

\* waitForOneRunningInstance has begun
InstBegun ==
  \/ pc \in {"waitForOneRunningInstance", "instLoop", "instReturn"}
  \/ instFetches > 0

\* C11: waitForOneRunningInstance begins only after the stop request was sent
\* and the tailer exited and signalled done, and only if the stage poller
\* returned (true, nil); after a staging error or a staging timeout there is
\* never an instance fetch
C11_InstancePollerAfterDrain ==
  /\ InstBegun =>
       /\ stopSends = 1 /\ doneDone >= 1 /\ tailPc = "exited"
       /\ isStaged /\ stageErr = NilErr
  /\ (StageReturned /\ (stageErr # NilErr \/ ~isStaged)) =>
       (instFetches = 0 /\ ~InstBegun)

\* C11 witness: the instance poller fetches after the tailer, which had
\* connected, closed the subscription on the stop request and exited
C11_Witness ==
  /\ pc = "instLoop" /\ instFetches >= 1
  /\ closeCalls = 1 /\ connectionStatus = ConnectionWasClosed /\ doneDone = 1

\* C12: a failed instance fetch never ends waitForOneRunningInstance: every
\* failure is warned and followed by a sleep, with the poller still in its
\* loop; the poller returns only nil for a snapshot with running >= 1, the
\* fatal error for one with flapping or crashed instances, or the timeout
\* error once the startup deadline passed
C12_FetchFailureRetried ==
  /\ [][(instFetches' = instFetches + 1 /\ lastFetch' = "err") =>
          /\ pc' = "instLoop" /\ instErr' = instErr
          /\ ui' = Append(ui, Warn("Could not fetch instance count"))
          /\ instSleeps' = instSleeps + 1 /\ now' = now + PingerThrottle]_vars
  /\ [](InstReturned =>
          \/ instErr = NilErr /\ lastFetch = "ok" /\ count.running >= 1
          \/ /\ instErr = MkErr("Start unsuccessful") /\ lastFetch = "ok"
             /\ (count.flapping > 0 \/ count.crashed > 0)
          \/ /\ instErr = MkErr("Start app timeout")
             /\ now - instTimerStart >= StartupTimeout)

\* C12 witness: two consecutive failed fetches, each with its sleep, and then
\* the timeout error
C12_Witness ==
  /\ pc = "instReturn" /\ instErr = MkErr("Start app timeout")
  /\ lastFetch = "err" /\ instFetches = 2 /\ instSleeps = 2

\* the number of instances of a list with a state tag among tags
TagCount(list, tags) == Cardinality({i \in 1..Len(list) : list[i].State \in tags})

\* the five tags fetchInstanceCount knows
KnownTags == {"running", "starting", "flapping", "down", "crashed"}

\* C13: in the counts fetchInstanceCount returns, total is the length of the
\* list, each of running, starting, flapping, down and crashed is the number
\* of instances with that tag, and the five counts sum to total minus the
\* number of instances with any other tag
C13_CountsPartitionTheList ==
  lastFetch = "ok" =>
    /\ count.total = Len(snapshot)
    /\ count.running = TagCount(snapshot, {"running"})
    /\ count.starting = TagCount(snapshot, {"starting"})
    /\ count.flapping = TagCount(snapshot, {"flapping"})
    /\ count.down = TagCount(snapshot, {"down"})
    /\ count.crashed = TagCount(snapshot, {"crashed"})
    /\ count.running + count.starting + count.flapping + count.down + count.crashed
         = count.total - TagCount(snapshot, InstanceStates \ KnownTags)

\* C13 witness: the counts of a list of an instance with an unknown tag and a
\* running instance
C13_Witness ==
  /\ lastFetch = "ok" /\ Len(snapshot) = 2
  /\ snapshot[1].State = "unknown" /\ snapshot[2].State = "running"
  /\ count.total = 2 /\ count.running = 1

\* the places of "Done uploading" in what printProgress has printed
DonePlaces == {i \in 1..Len(prOut) : prOut[i] = DoneUploading}

\* C14: at most one printProgress goroutine is started; "Done uploading" is
\* said at most once, right after the blank line, and nothing is printed
\* after it; a Read that has reached total finds the goroutine receiving or
\* Done already said, and returns from its send only as the goroutine prints
\* the blank line and says Done
C14_DoneUploadingOnce ==
  /\ [](/\ printers <= 1
        /\ Cardinality(DonePlaces) <= 1
        /\ \A i \in DonePlaces : i = Len(prOut) /\ i > 1 /\ prOut[i - 1] = BlankLine
        /\ callPc = "readSend" => (total > 0 /\ total <= bytesRead
                                    /\ (printPc = "select" \/ DonePlaces # {})))
  /\ [][(callPc = "readSend" /\ callPc' = "idle") =>
          (prOut' = prOut \o <<BlankLine, DoneUploading>> /\ printPc' = "exited")]_vars

\* C14 witness: three Reads with bytes, an "uploaded..." line, then Done once
C14_Witness ==
  /\ total = MaxTotal /\ bytesRead >= total /\ prCalls >= 3 /\ callPc = "idle"
  /\ printers = 1 /\ printPc = "exited"
  /\ prOut = <<Uploaded, BlankLine, DoneUploading>>

\* C15 as claimed: with a nonzero deadline, when the last fetch observed
\* STAGED the poller returned (true, nil) and did not sleep after that fetch
\* (the Sleep of line 377 follows every successful fetch, and the test of
\* line 409 then reads the clock again)
C15_StagedReturnsTrueWithoutSleep ==
  (StagingTimeout > 0 /\ StageReturned /\ app.PackageState = "STAGED") =>
     /\ isStaged /\ stageErr = NilErr
     /\ stageSleeps = stageFetches - 1

\* C17 as claimed: connectionStatus is read and written by the goroutine of
\* TailStagingLogs only, never by the goroutine of TailLogsFor, which invokes
\* the onConnect closure (the closure tests and sets it, lines 288-290)
C17_StatusOwnedByTailer ==
  statusAccess \subseteq {"TailStagingLogs"}

\* C20: the control task sends on stopChan at most once, and the send never
\* blocks: whenever WatchStaging is at the code after the stage poller's loop
\* it can take its step, the buffer of stopChan being empty, also when
\* TailStagingLogs has exited
C20_StopSentOnceNeverBlocks ==
  /\ stopSends <= 1 /\ stopChan <= 1
  /\ (~crashed /\ pc = "stageReturn") => (stopChan = 0 /\ ENABLED StageReturn)
  /\ pc = "loggingDoneWait" => stopSends = 1

\* C20 witness: the stop request was sent after TailStagingLogs had exited on
\* the connection timeout, and stays in the buffer
C20_Witness ==
  /\ pc = "loggingDoneWait" /\ stopSends = 1 /\ stopChan = 1
  /\ tailPc = "exited" /\ connectionStatus = StoppedTrying

\* waitForInstancesToStage is running
Staging == pc \in {"waitForInstancesToStage", "stageLoop", "stageReturn"}

\* C18: with a nonzero deadline waitForInstancesToStage returns: it sleeps at
\* most once per PingerThrottle of the deadline, its loop is left only with
\* STAGED, FAILED, a failed fetch or the deadline passed, a failed fetch is
\* returned with no sleep after it, the poller always has a step to take, and
\* under the scheduling of FairSpec every run of it returns
C18_StagePollerTerminates ==
  /\ []((StagingTimeout > 0 /\ stageSleeps > 0) =>
          (stageSleeps - 1) * PingerThrottle < StagingTimeout)
  /\ []((StagingTimeout > 0 /\ pc = "stageReturn") =>
          \/ app.PackageState \in {"STAGED", "FAILED"}
          \/ stageErr # NilErr /\ stageSleeps = stageFetches - 1
          \/ now - stagingStartTime >= StagingTimeout)
  /\ []((~crashed /\ Staging) => ENABLED (StageBegin \/ StageLoop \/ StageReturn))
  /\ (StagingTimeout > 0 /\ Staging) ~> (StageReturned \/ crashed)

\* C18 witness: the poller returned after a failed second fetch
C18_Witness ==
  /\ StagingTimeout > 0 /\ StageReturned /\ stageErr = MkErr("apiErr")
  /\ stageFetches = 2 /\ stageSleeps = 1 /\ app = ZeroApp

\* C16: the tailer receiving the stop request goes on to close the
\* subscription if the status is ConnectionWasEstablished and returns, with
\* the done signal, if not; closing sets ConnectionWasClosed and calls
\* logRepo.Close() once; an error on e under ConnectionWasClosed leaves the
\* tailer in its loop; and once the subscription was closed and the transport
\* has closed the stream c the tailer exits and signals done
C16_StopClosesThenDrains ==
  /\ [][stopChan' < stopChan =>
          IF connectionStatus = ConnectionWasEstablished
          THEN tailPc' = "stopClose" /\ doneDone' = doneDone
          ELSE tailPc' = "exited" /\ doneDone' = doneDone + 1]_vars
  /\ [][(tailPc = "stopClose" /\ tailPc' # "stopClose") =>
          /\ connectionStatus' = ConnectionWasClosed
          /\ closeCalls' = closeCalls + 1 /\ tailPc' = "select"]_vars
  /\ [][(errsSent' > errsSent /\ connectionStatus = ConnectionWasClosed) =>
          (tailPc' = "select" /\ doneDone' = doneDone)]_vars
  /\ (closeCalls > 0 /\ cClosed) ~> ((tailPc = "exited" /\ doneDone = 1) \/ crashed)

\* C16 witness: the tailer closed the subscription, received the trailing
\* error in its loop, and exited when the stream was closed
C16_Witness ==
  /\ closeCalls = 1 /\ errsSent = 1 /\ cClosed
  /\ connectionStatus = ConnectionWasClosed /\ tailPc = "exited" /\ doneDone = 1

\* the last instance snapshot decides the start
Decisive == lastFetch = "ok" /\ (count.running > 0 \/ count.flapping > 0 \/ count.crashed > 0)

\* C19: waitForOneRunningInstance returns: it sleeps at most once per
\* PingerThrottle of the startup deadline, which is measured from one timer
\* started on entry, it always has a step to take, and when it returns
\* without a snapshot showing running, flapping or crashed instances, as when
\* every fetch failed, it returns the timeout error, the deadline having passed
C19_InstancePollerTerminates ==
  /\ [](instSleeps > 0 => (instSleeps - 1) * PingerThrottle < StartupTimeout)
  /\ []((~crashed /\ pc \in {"waitForOneRunningInstance", "instLoop"}) =>
          ENABLED (InstBegin \/ InstTimeout \/ InstFetchFailed \/ InstFetchOk))
  /\ []((InstReturned /\ ~Decisive) =>
          (instErr = MkErr("Start app timeout") /\ now - instTimerStart >= StartupTimeout))
  /\ [][pc = "instLoop" => instTimerStart' = instTimerStart]_vars

\* C19 witness: every fetch failed and the poller returned the timeout error
C19_Witness ==
  /\ pc = "returned" /\ result = MkErr("Start app timeout")
  /\ lastFetch = "err" /\ instFetches = StartupTimeout \div PingerThrottle
  /\ instSleeps = instFetches /\ now - instTimerStart >= StartupTimeout

\* what the tailer says for the messages arr[k..], the k-th being said as
\* message k
RECURSIVE StagingSaid(_, _)
StagingSaid(arr, k) ==
  IF k > Len(arr) THEN <<>>
  ELSE (IF arr[k] = LogMessageTypeStaging THEN <<Out("say", "log", k)>> ELSE <<>>)
       \o StagingSaid(arr, k + 1)

\* the messages among what the tailer has written to the UI
SaidLogs == SelectSeq(tailUi, LAMBDA e : e.text = "log")

\* C21: the messages the tailer has said are exactly the arrived messages
\* whose source is LogMessageTypeStaging, in the order of arrival, and the
\* arrival of a message of either source leaves the tailer in its loop
C21_StagingMessagesForwarded ==
  /\ [](Len(arrived) = msgsSent /\ SaidLogs = StagingSaid(arrived, 1))
  /\ [][msgsSent' > msgsSent =>
          (tailPc = "select" /\ tailPc' = "select" /\ doneDone' = doneDone)]_vars

\* C21 witness: of three messages the first and the third were said, in
\* that order, and the tailer is still in its loop
C21_Witness ==
  /\ arrived = <<LogMessageTypeStaging, "APP", LogMessageTypeStaging>>
  /\ SaidLogs = <<Out("say", "log", 1), Out("say", "log", 3)>>
  /\ tailPc = "select"

\* C22 as claimed: whatever the transport does, the control task leaves
\* loggingStartedWait.Wait() and leaves loggingDoneWait.Wait() (a stream
\* closed before the connection leaves the ready signal unsent, and after
\* logRepo.Close() the tailer exits on the close of c only, not on a
\* trailing error)
C22_WatchStagingReturns ==
  /\ (pc = "loggingStartedWait") ~> (pc # "loggingStartedWait" \/ crashed)
  /\ (pc = "loggingDoneWait") ~> (pc # "loggingDoneWait" \/ crashed)

\* C23 as claimed: a Read or a Close that sends on quit is received, so the
\* call returns (after printProgress has returned nothing receives on the
\* unbuffered channel, and quit is never set back to nil)
C23_SendOnQuitReceived ==
  callPc \in {"readSend", "closeSend"} => ENABLED PrintProgressQuit

====
